---- MODULE Spec2Model ----
(***************************************************************************)
(* PolyTree (equadratures/polytree.py): a binary regression tree whose     *)
(* nodes hold local polynomial surrogates.  The model covers fit, prune,   *)
(* predict, apply, get_splits, get_polys, get_node and get_paths.          *)
(*                                                                         *)
(* Encoding.  A tree is a function from heap positions (root 1, left child *)
(* of p is 2p, right child 2p+1) to node records; children.left of p is    *)
(* present iff 2p is in the domain, children.right iff 2p+1 is.  self.tree *)
(* = None is the empty function.  A data subset (X[idx], y[idx]) is the    *)
(* set idx of row numbers of the array it was cut from.  Real numbers are  *)
(* exact rationals [num, den]; den = 0 stands for NaN and None (j_feature, *)
(* index) is -1.                                                           *)
(***************************************************************************)
EXTENDS Integers, Sequences, FiniteSets, TLC

\* ---------------------------------------------------------------- bounds
NRows == 4          \* rows of the training array
MaxDepth == 2       \* max_depth is configured in 0..MaxDepth
MaxFits == 2        \* fit calls on one object
MaxPrunes == 1      \* prune calls after one fit

None == -1
\* the values of the training outputs, and the rows of the arrays: feature 0
\* in XVals, feature 1 in {0, 1}
YVals == {0, 1}
XVals == {0, 1, 2}
Points == XVals \X {0, 1}
Dims(X) == 0..(Len(X[1]) - 1)

\* ------------------------------------------------------------- rationals
Rat(n, d) == [num |-> n, den |-> d]
NaN == Rat(0, 0)
NoThreshold == Rat(0, 0)
IsNaN(a) == a.den = 0
RatLess(a, b) == ~IsNaN(a) /\ ~IsNaN(b) /\ a.num * b.den < b.num * a.den
RatEq(a, b) == ~IsNaN(a) /\ ~IsNaN(b) /\ a.num * b.den = b.num * a.den

RECURSIVE GCD(_, _)
GCD(a, b) == IF b = 0 THEN a ELSE GCD(b, a % b)

\* n/d in lowest terms, for n >= 0 and d > 0
Reduced(n, d) == Rat(n \div GCD(n, d), d \div GCD(n, d))

\* a + b in lowest terms; NaN if either is NaN
RatAdd(a, b) ==
    IF IsNaN(a) \/ IsNaN(b) THEN NaN
    ELSE Reduced(a.num * (b.den \div GCD(a.den, b.den))
                    + b.num * (a.den \div GCD(a.den, b.den)),
                 (a.den \div GCD(a.den, b.den)) * b.den)

RECURSIVE FracLess(_, _, _, _)
\* a/b < c/d for a, c >= 0 and b, d > 0, compared by integer parts and then
\* by the reciprocals of the fractional parts
FracLess(a, b, c, d) ==
    IF a \div b # c \div d THEN a \div b < c \div d
    ELSE IF c % d = 0 THEN FALSE
    ELSE IF a % b = 0 THEN TRUE
    ELSE FracLess(d, c % d, b, a % b)

RECURSIVE SumOver(_, _)
SumOver(S, f) ==
    IF S = {} THEN 0
    ELSE LET r == CHOOSE r \in S : TRUE IN f[r] + SumOver(S \ {r}, f)

RECURSIVE SortSet(_)
\* ascending sequence of a finite set of integers (np.unique / np.sort)
SortSet(S) ==
    IF S = {} THEN <<>>
    ELSE LET m == CHOOSE m \in S : \A o \in S : m <= o
         IN <<m>> \o SortSet(S \ {m})

PointLess(p, q) == p[1] < q[1] \/ (p[1] = q[1] /\ p[2] < q[2])

RECURSIVE SortPoints(_)
SortPoints(S) ==
    IF S = {} THEN <<>>
    ELSE LET m == CHOOSE m \in S : \A o \in S \ {m} : PointLess(m, o)
         IN <<m>> \o SortPoints(S \ {m})

\* the arrays a caller may pass as X: NRows distinct rows, in row order
TrainX == {SortPoints(S) : S \in {T \in SUBSET Points : Cardinality(T) = NRows}}
TrainY == [1..NRows -> YVals]

\* ----------------------------------------------------------------- state
VARIABLES
    splitting_criterion,  \* self.splitting_criterion
    max_depth,            \* self.max_depth
    search,               \* self.search
    samples,              \* self.samples
    all_data,             \* self.all_data
    min_samples_leaf,     \* self.min_samples_leaf (None until the first fit derives it)
    k,                    \* self.k, a rational
    split_dims,           \* self.split_dims, a list (NoDims when unset)
    actual_max_depth,     \* self.actual_max_depth
    tree,                 \* self.tree
    X_train, y_train,     \* the arrays given to the last fit call
    nFits, nPrunes,       \* calls made so far (fit calls; prune calls since the last fit)
    lastOp,               \* the operation that ran last
    arg,                  \* the arguments it was called with
    raised,               \* whether that operation ended by raising an exception
    result                \* what that operation returned

config == <<splitting_criterion, max_depth, search, samples, all_data>>
derived == <<min_samples_leaf, k, split_dims, actual_max_depth>>
ghost == <<X_train, y_train, nFits, nPrunes>>
vars == <<config, derived, tree, ghost, lastOp, arg, raised, result>>

NoDims == <<None>>
NoTree == <<>>
NoPoly == [serial |-> None, coef |-> 0]

\* ------------------------------------------------- external collaborators
\* Basis(...).get_cardinality() for the default total-order basis of order 1
BasisCardinality(d) == d + 1

\* Poly.get_polyfit: the fitted surrogate evaluated at a row
GetPolyfit(poly, x) == poly.coef

\* Poly.get_poly: the basis functions at a row, the constant one first and
\* then one linear term for every dimension
GetPoly(poly, x) == <<1>> \o x

\* Poly(...).set_model(): the least-squares fit, here the value nearest to
\* the mean of the sample outputs
SetModel(y, rows) ==
    (2 * SumOver(rows, y) + Cardinality(rows)) \div (2 * Cardinality(rows))

\* ||y - poly.get_polyfit(X)||^2 over the rows of a subset
SquaredError(poly, X, y, rows) ==
    SumOver(rows, [r \in rows |-> (y[r] - GetPolyfit(poly, X[r])) * (y[r] - GetPolyfit(poly, X[r]))])

\* ------------------------------------------------------------- _fit_poly
\* c is container["index_node_global"]; every fit advances it by one
_fit_poly(X, y, rows, c) ==
    LET poly == [serial |-> c + 1, coef |-> SetModel(y, rows)]
    IN [mse |-> Rat(SquaredError(poly, X, y, rows), Cardinality(rows)),
        poly |-> poly,
        c |-> c + 1]

\* ----------------------------------------------------------- _split_data
\* the comparison of _split_data made strict
LeftRowsStrict(j_feature, threshold, X, rows) ==
    {r \in rows : X[r][j_feature + 1] * threshold.den < threshold.num}

LeftRows(j_feature, threshold, X, rows) ==
    {r \in rows : X[r][j_feature + 1] * threshold.den <= threshold.num}

_split_data(j_feature, threshold, X, rows) ==
    LET idx_left == LeftRows(j_feature, threshold, X, rows)
    IN [left |-> idx_left, right |-> rows \ idx_left]

\* ------------------------------------------------ _splitter: candidates
ColumnValues(X, rows, j_feature) == {X[r][j_feature + 1] : r \in rows}
SetMin(S) == CHOOSE m \in S : \A o \in S : m <= o
SetMax(S) == CHOOSE m \in S : \A o \in S : m >= o

\* np.linspace(lo, hi, num): num evenly spaced points, both ends included
Linspace(lo, hi, num) ==
    IF num = 1 THEN {Rat(lo, 1)}
    ELSE {Rat(lo * (num - 1) + i * (hi - lo), num - 1) : i \in 0..(num - 1)}

\* threshold_search of one feature and np.unique(np.sort(threshold_search)):
\* the distinct candidate thresholds in ascending order
ThresholdSearch(X, rows, j_feature, search_, samples_) ==
    LET col == ColumnValues(X, rows, j_feature)
        N == Cardinality(rows)
        num == IF samples_ > N THEN N ELSE samples_
        grid == Linspace(SetMin(col), SetMax(col), num)
        den == IF num = 1 THEN 1 ELSE num - 1
        nums == IF search_ = "exhaustive" THEN col ELSE {t.num : t \in grid}
        d == IF search_ = "exhaustive" THEN 1 ELSE den
        sorted == SortSet(nums)
    IN [i \in 1..Len(sorted) |-> Rat(sorted[i], d)]

RECURSIVE Candidates(_, _, _, _, _)
\* the (j_feature, threshold) pairs in the order the two nested loops visit them
Candidates(X, rows, j_feature, search_, samples_) ==
    IF j_feature \notin Dims(X) THEN <<>>
    ELSE LET ts == ThresholdSearch(X, rows, j_feature, search_, samples_)
         IN [i \in 1..Len(ts) |-> [j_feature |-> j_feature, threshold |-> ts[i]]]
            \o Candidates(X, rows, j_feature + 1, search_, samples_)

\* ------------------------------------------- _splitter: model_agnostic
\* N * np.std(y) of a subset, squared: N * sum(y^2) - sum(y)^2
StdScore(y, rows) ==
    Cardinality(rows) * SumOver(rows, [r \in rows |-> y[r] * y[r]])
        - SumOver(rows, y) * SumOver(rows, y)

\* sqrt(a1) + sqrt(b1) > sqrt(a2) + sqrt(b2), decided in integers
SqrtSumGreater(a1, b1, a2, b2) ==
    LET P == a1 * b1
        Q == a2 * b2
        c == a2 + b2 - a1 - b1
        e == 4 * P - c * c - 4 * Q
    IN IF c < 0 /\ c * c > 4 * Q THEN TRUE
       ELSE IF c >= 0 THEN e > 0 /\ e * e > 16 * c * c * Q
       ELSE e > 0 \/ e * e < 16 * c * c * Q

\* the model_agnostic comparison with ties accepted
AgnosticLessOrEqual(new, best) == ~SqrtSumGreater(best.l, best.r, new.l, new.r)

\* loss_split < loss_best for two model_agnostic scores of the same node
\* (np.std(y) and N are common to both sides)
AgnosticLess(new, best) == SqrtSumGreater(new.l, new.r, best.l, best.r)

\* (N_left*loss_left + N_right*loss_right) / N
WeightedLoss(N_left, loss_left, N_right, loss_right, N) ==
    Rat(N_left * loss_left.num * loss_right.den + N_right * loss_right.num * loss_left.den,
        loss_left.den * loss_right.den * N)

\* ------------------------------------------ _splitter: threshold search
\* the comparison of the threshold search with ties accepted
ImprovesBestOrEqual(loss_split, loss_best) == ~RatLess(loss_best, loss_split)

\* "loss_split < loss_best" of the threshold search
ImprovesBest(loss_split, loss_best) == RatLess(loss_split, loss_best)

\* the size test of the threshold search asking for non-empty sides only
AdmissibleNonEmpty(N_left, N_right, msl) == N_left >= 1 /\ N_right >= 1

\* "N_left >= self.min_samples_leaf and N_right >= self.min_samples_leaf"
Admissible(N_left, N_right, msl) == N_left >= msl /\ N_right >= msl

\* the two fits of a candidate split, the left one first
FitBoth(X, y, sp, c) ==
    LET fl == _fit_poly(X, y, sp.left, c)
    IN [left |-> fl, right |-> _fit_poly(X, y, sp.right, fl.c)]

\* the body of the two nested loops for one (j_feature, threshold); best is
\* the loop's running state (did_split, loss_best, polys_best, data_best, ...)
ThresholdStep(X, y, rows, criterion, msl, j_feature, threshold, best) ==
    LET Update(sp, fits, loss_split) ==
            IF ImprovesBest(loss_split, best.loss)
            THEN [best EXCEPT !.did_split = TRUE,
                              !.loss = loss_split,
                              !.polys = <<fits.left.poly, fits.right.poly>>,
                              !.data = sp,
                              !.j_feature = j_feature,
                              !.threshold = threshold,
                              !.c = fits.right.c]
            ELSE [best EXCEPT !.c = fits.right.c]
        Aware(sp, fits) ==
            Update(sp, fits, WeightedLoss(Cardinality(sp.left), fits.left.mse,
                                          Cardinality(sp.right), fits.right.mse,
                                          Cardinality(rows)))
        Agnostic(sp, score) ==
            IF best.inf \/ AgnosticLess(score, best.score)
            THEN [best EXCEPT !.did_split = TRUE,
                              !.inf = FALSE,
                              !.score = score,
                              !.data = sp,
                              !.j_feature = j_feature,
                              !.threshold = threshold]
            ELSE best
        Try(sp) ==
            IF ~Admissible(Cardinality(sp.left), Cardinality(sp.right), msl) THEN best
            ELSE IF criterion = "model_aware" THEN Aware(sp, FitBoth(X, y, sp, best.c))
            ELSE Agnostic(sp, [l |-> StdScore(y, sp.left), r |-> StdScore(y, sp.right)])
    IN Try(_split_data(j_feature, threshold, X, rows))

RECURSIVE ThresholdLoop(_, _, _, _, _, _, _, _)
\* the two nested loops, run on candidates i.. of cands
ThresholdLoop(X, y, rows, criterion, msl, cands, i, best) ==
    IF i > Len(cands) THEN best
    ELSE ThresholdLoop(X, y, rows, criterion, msl, cands, i + 1,
                       ThresholdStep(X, y, rows, criterion, msl,
                                     cands[i].j_feature, cands[i].threshold, best))

\* ------------------------------------------------- _find_split_from_grad
\* the admissible boundaries of dimension d: for each distinct value v but
\* the smallest, N_l rows lie below v; kept when min(N_l, N_r) >= msl
GradSplits(X, rows, d, msl) ==
    LET vals == SortSet(ColumnValues(X, rows, d))
        N == Cardinality(rows)
        N_l(i) == Cardinality({r \in rows : X[r][d + 1] < vals[i]})
        keep == {i \in 2..Len(vals) : N_l(i) >= msl /\ N - N_l(i) >= msl}
        kept == SortSet(keep)
    IN [n \in 1..Len(kept) |->
          [N_l |-> N_l(kept[n]), N_r |-> N - N_l(kept[n]),
           lo |-> vals[kept[n] - 1], hi |-> vals[kept[n]]]]

\* 1 / epsilon**2 of _get_mean_and_sigma
InvEpsilonSquared == 1000000

\* _get_mean_and_sigma and _renormalise for column c of P and the side S of
\* the node's rows R, then the square: ((gsum_c - mu*gsum_0) / sigma)^2, where
\* mu is the side's mean of the column and sigma^2 = max(X2sum/(n - 1) -
\* mu_shift^2, epsilon^2) for the column shifted by its mean over R.  A side
\* of one row divides by n - 1 = 0: sigma is NaN if the row's shifted value
\* is 0, else infinite (and the renormalised sum 0).  r are the residuals.
RenormTerm(model, X, r, R, S, c) ==
    LET Col(q) == GetPoly(model, X[q])[c]
        Squared(N, n, B, V, K) ==
            IF n = 1 THEN (IF B = 0 THEN NaN ELSE Rat(0, 1))
            ELSE IF V < N * N * n * n * (n - 1)
                    /\ V * InvEpsilonSquared < N * N * n * n * (n - 1)
            THEN Reduced(K * K * InvEpsilonSquared, n * n)
            ELSE Reduced(K * K * N * N * (n - 1), V)
        Sums(N, n, A, B) ==
            Squared(N, n, B, n * n * B - (n - 1) * A * A,
                    n * SumOver(S, [q \in S |-> r[q] * Col(q)])
                      - SumOver(S, [q \in S |-> Col(q)]) * SumOver(S, r))
        Shifted(N, u) ==
            Sums(N, Cardinality(S), SumOver(S, u), SumOver(S, [q \in S |-> u[q] * u[q]]))
        Mean(N, M) == Shifted(N, [q \in S |-> N * Col(q) - M])
    IN Mean(Cardinality(R), SumOver(R, [q \in R |-> Col(q)]))

RECURSIVE RenormSum(_, _, _, _, _, _, _)
\* (gsum**2).sum(axis=1) of one side: the intercept's column as it is, the
\* columns from c on renormalised
RenormSum(model, X, r, R, S, c, sum) ==
    IF c > Len(GetPoly(model, X[CHOOSE q \in R : TRUE])) THEN sum
    ELSE RenormSum(model, X, r, R, S, c + 1,
                   RatAdd(sum, RenormTerm(model, X, r, R, S, c)))

\* (gsum_side**2).sum(axis=1) / N_side
SideGain(model, X, r, R, S) ==
    LET Over(sum) ==
            IF IsNaN(sum) THEN NaN ELSE Reduced(sum.num, sum.den * Cardinality(S))
    IN Over(RenormSum(model, X, r, R, S, 2,
                      Rat(SumOver(S, r) * SumOver(S, r), 1)))

\* the gain of one boundary of dimension d, for the residuals
\* r = y - model.get_polyfit(X); NaN if a renormalisation gave NaN
Gain(model, X, y, rows, d, split) ==
    LET Sides(r, left) ==
            RatAdd(SideGain(model, X, r, rows, left),
                   SideGain(model, X, r, rows, rows \ left))
    IN Sides([q \in rows |-> y[q] - GetPolyfit(model, X[q])],
             {q \in rows : X[q][d + 1] < split.hi})

RECURSIVE Gains(_, _, _, _, _, _, _)
\* the gains of the boundaries i.. of dimension d, in their order
Gains(model, X, y, rows, d, splits, i) ==
    IF i > Len(splits) THEN <<>>
    ELSE <<Gain(model, X, y, rows, d, splits[i])>>
            \o Gains(model, X, y, rows, d, splits, i + 1)

\* "gain > gain_max" for two gains, false if either is NaN
GainLess(a, b) == ~IsNaN(a) /\ ~IsNaN(b) /\ FracLess(a.num, a.den, b.num, b.den)

\* np.argmax: the first NaN if there is one, else the first index of a
\* largest gain
ArgMax(gains) ==
    IF \E i \in 1..Len(gains) : IsNaN(gains[i])
    THEN CHOOSE i \in 1..Len(gains) :
            IsNaN(gains[i]) /\ \A o \in 1..(i - 1) : ~IsNaN(gains[o])
    ELSE CHOOSE i \in 1..Len(gains) :
            /\ \A o \in 1..Len(gains) : ~GainLess(gains[i], gains[o])
            /\ \A o \in 1..(i - 1) : GainLess(gains[o], gains[i])

\* one pass of the loop over self.split_dims, for the dimension d
GradStep(model, X, y, rows, d, msl, best) ==
    LET Update(splits, gains, best_idx) ==
            IF ~IsNaN(gains[best_idx])
                  /\ (best.none \/ GainLess(best.gain_max, gains[best_idx]))
            THEN [best EXCEPT !.none = FALSE,
                              !.gain_max = gains[best_idx],
                              !.split_dim = d,
                              !.split_val = Rat(splits[best_idx].lo + splits[best_idx].hi, 2)]
            ELSE best
        Pick(splits, gains) ==
            IF Len(splits) <= 1 THEN best ELSE Update(splits, gains, ArgMax(gains))
        Score(splits) ==
            Pick(splits, Gains(model, X, y, rows, d, splits, 1))
    IN IF d \notin Dims(X) THEN [best EXCEPT !.raised = TRUE]
       ELSE Score(GradSplits(X, rows, d, msl))

RECURSIVE GradLoop(_, _, _, _, _, _, _, _)
\* the loop over self.split_dims, from its n-th entry on
GradLoop(model, X, y, rows, dims, msl, n, best) ==
    IF n > Len(dims) \/ best.raised THEN best
    ELSE GradLoop(model, X, y, rows, dims, msl, n + 1,
                  GradStep(model, X, y, rows, dims[n], msl, best))

_find_split_from_grad(model, X, y, rows, dims, msl) ==
    LET Outcome(best) ==
            [did_split |-> ~best.none /\ ~best.raised,
             j_feature |-> IF best.none THEN None ELSE best.split_dim,
             threshold |-> IF best.none THEN NoThreshold ELSE best.split_val,
             raised |-> best.raised]
    IN Outcome(GradLoop(model, X, y, rows, dims, msl, 1,
                        [none |-> TRUE, gain_max |-> Rat(0, 1), split_dim |-> None,
                         split_val |-> NoThreshold, raised |-> FALSE]))

\* ------------------------------------------------------------- _splitter
RangeList(d) == [i \in 1..d |-> i - 1]
Criteria == {"model_aware", "model_agnostic", "loss_gradient"}
Searches == {"exhaustive", "grid"}

\* the depth test of _splitter with max_depth included
EligibleInclusive(depth, max_depth_) == depth >= 0 /\ depth <= max_depth_

\* self.actual_max_depth raised only by a split two levels below it
TrackDepthLate(did_split, depth, amd) ==
    IF did_split /\ depth > amd + 1 THEN depth ELSE amd

\* "if did_split and depth > self.actual_max_depth:
\*      self.actual_max_depth = depth"
TrackDepth(did_split, depth, amd) ==
    IF did_split /\ depth > amd THEN depth ELSE amd

\* the depth test of _splitter without its upper limit
EligibleAnyDepth(depth, max_depth_) == depth >= 0

\* "if (depth >= 0) and (depth < self.max_depth)"
Eligible(depth, max_depth_) == depth >= 0 /\ depth < max_depth_

\* a search-mode test made before the criterion is looked at
BadSearchAnyCriterion(eligible, criterion, d, search_) ==
    eligible /\ d > 0 /\ search_ \notin Searches

\* the search loop reaches "raise Exception('Incorrect search type! ...')":
\* only inside the depth test, for a criterion that searches thresholds, and
\* in the first pass of "for j_feature in range(d)"
BadSearch(eligible, criterion, d, search_) ==
    eligible /\ criterion # "loss_gradient" /\ d > 0 /\ search_ \notin Searches

\* one split search: node is the node record, c the fit counter, amd
\* self.actual_max_depth, msl self.min_samples_leaf, dims self.split_dims
_splitter(X, y, node, c, amd, msl, dims) ==
    LET rows == node.data
        depth == node.depth
        d == Len(X[1])
        dims1 == IF dims = NoDims THEN RangeList(d) ELSE dims
        start == [did_split |-> FALSE,
                  loss |-> IF splitting_criterion = "model_aware" THEN node.loss ELSE NaN,
                  inf |-> splitting_criterion # "model_aware",
                  score |-> [l |-> 0, r |-> 0],
                  polys |-> <<NoPoly, NoPoly>>,
                  data |-> [left |-> {}, right |-> {}],
                  j_feature |-> None,
                  threshold |-> NoThreshold,
                  c |-> c]
        eligible == Eligible(depth, max_depth)
        bad_search == BadSearch(eligible, splitting_criterion, d, search)
        Failed(c_) ==
            [did_split |-> FALSE, loss |-> NaN, polys |-> <<NoPoly, NoPoly>>,
             data |-> [left |-> {}, right |-> {}], j_feature |-> None,
             threshold |-> NoThreshold, N |-> Cardinality(rows), c |-> c_,
             amd |-> amd, dims |-> dims1, raised |-> TRUE]
        Finish(best) ==
            [did_split |-> best.did_split,
             loss |-> best.loss,
             polys |-> best.polys,
             data |-> best.data,
             j_feature |-> best.j_feature,
             threshold |-> best.threshold,
             N |-> Cardinality(rows),
             c |-> best.c,
             amd |-> TrackDepth(best.did_split, depth, amd),
             dims |-> dims1,
             raised |-> FALSE]
        \* the fits of the two sides of the split a search without fits chose
        Losses(found, sp, fits) ==
            Finish([found EXCEPT
                      !.loss = WeightedLoss(Cardinality(sp.left), fits.left.mse,
                                            Cardinality(sp.right), fits.right.mse,
                                            Cardinality(rows)),
                      !.polys = <<fits.left.poly, fits.right.poly>>,
                      !.data = IF splitting_criterion = "loss_gradient"
                               THEN sp ELSE found.data,
                      !.c = fits.right.c])
        Polys(found, sp) == Losses(found, sp, FitBoth(X, y, sp, found.c))
        Refit(found) ==
            IF splitting_criterion # "model_aware" /\ found.did_split
            THEN Polys(found, _split_data(found.j_feature, found.threshold, X, rows))
            ELSE Finish(found)
        Gradient(parent, grad) ==
            IF grad.raised THEN Failed(parent.c)
            ELSE Refit([start EXCEPT !.did_split = grad.did_split,
                                     !.j_feature = grad.j_feature,
                                     !.threshold = grad.threshold,
                                     !.c = parent.c])
        Parent(parent) ==
            Gradient(parent, _find_split_from_grad(parent.poly, X, y, rows, dims1, msl))
    IN IF splitting_criterion \notin Criteria \/ bad_search THEN Failed(c)
       ELSE IF ~eligible THEN Finish(start)
       ELSE IF splitting_criterion # "loss_gradient"
       THEN Refit(ThresholdLoop(X, y, rows, splitting_criterion, msl,
                                Candidates(X, rows, 0, search, samples), 1, start))
       ELSE Parent(_fit_poly(X, y, rows, c))

\* ---------------------------------------------------------- _create_node
_create_node(X, y, rows, depth, c) ==
    LET Node(f) ==
            [node |-> [index |-> f.c,
                       loss |-> f.mse,
                       poly |-> f.poly,
                       data |-> rows,
                       has_data |-> TRUE,
                       n_samples |-> Cardinality(rows),
                       j_feature |-> None,
                       threshold |-> NoThreshold,
                       depth |-> depth,
                       flag |-> FALSE,
                       has_test_loss |-> FALSE,
                       test_loss |-> NaN,
                       has_lower_loss |-> FALSE,
                       lower_loss |-> NaN],
             c |-> f.c + 1]
    IN Node(_fit_poly(X, y, rows, c))

\* -------------------------------------------------- _split_traverse_node
Left(p) == 2 * p
Right(p) == 2 * p + 1

\* the children's creation with the counter handed to each call by value
CreateChildrenByValue(X, y, data, polys, depth, c) ==
    LET Both(left, right) ==
            [left |-> [left.node EXCEPT !.poly = polys[1]],
             right |-> [right.node EXCEPT !.poly = polys[2]],
             c |-> right.c]
        Second(left) == Both(left, _create_node(X, y, data.right, depth, c))
    IN Second(_create_node(X, y, data.left, depth, c))

\* the two _create_node calls of an accepted split and the two assignments
\* that put the split search's polynomials in place of the refitted ones
CreateChildren(X, y, data, polys, depth, c) ==
    LET Both(left, right) ==
            [left |-> [left.node EXCEPT !.poly = polys[1]],
             right |-> [right.node EXCEPT !.poly = polys[2]],
             c |-> right.c]
        Second(left) == Both(left, _create_node(X, y, data.right, depth, left.c))
    IN Second(_create_node(X, y, data.left, depth, c))

\* the deletion of a split node's data made whatever all_data is
DelDataAlways(node, all_data_) == [node EXCEPT !.data = {}, !.has_data = FALSE]

\* "if not self.all_data: del node["data"]"
DelData(node, all_data_) ==
    IF all_data_ THEN node ELSE [node EXCEPT !.data = {}, !.has_data = FALSE]

RECURSIVE _split_traverse_node(_, _, _, _, _)
\* st: the nodes built so far, the fit counter, self.actual_max_depth,
\* self.split_dims and whether an exception is propagating
_split_traverse_node(X, y, msl, st, p) ==
    IF st.raised THEN st
    ELSE
      LET node == st.nodes[p]
          Grow(res, children) ==
              [nodes |-> [q \in DOMAIN st.nodes \cup {Left(p), Right(p)} |->
                            IF q = p
                            THEN DelData([node EXCEPT !.j_feature = res.j_feature,
                                                      !.threshold = res.threshold],
                                         all_data)
                            ELSE IF q = Left(p) THEN children.left
                            ELSE IF q = Right(p) THEN children.right
                            ELSE st.nodes[q]],
               c |-> children.c, amd |-> res.amd, dims |-> res.dims,
               raised |-> FALSE]
          Continue(res) ==
              IF res.raised \/ ~res.did_split
              THEN [st EXCEPT !.c = res.c, !.amd = res.amd, !.dims = res.dims,
                              !.raised = res.raised]
              ELSE _split_traverse_node(X, y, msl,
                       _split_traverse_node(X, y, msl,
                           Grow(res, CreateChildren(X, y, res.data, res.polys,
                                                    node.depth + 1, res.c)),
                           Left(p)),
                       Right(p))
      IN Continue(_splitter(X, y, node, st.c, st.amd, msl, st.dims))

\* ----------------------------------------------------------- _build_tree
Root == 1
AllRows(X) == 1..Len(X)

_build_tree(X, y, msl, amd, dims) ==
    LET Start(root) ==
            _split_traverse_node(X, y, msl,
                [nodes |-> [q \in {Root} |-> root.node], c |-> root.c, amd |-> amd,
                 dims |-> dims, raised |-> FALSE],
                Root)
    IN Start(_create_node(X, y, AllRows(X), 0, 0))

\* ------------------------------------------------------------------ Init
DefaultK == Rat(1, 20)
DefaultSamples == 50
MinSamplesChoices == {None, 1, 2}
GridSamples == {2, 3}

\* the constructor's options: the defaults, or one of search/samples,
\* split_dims and all_data set by the caller
Options ==
    {[search |-> "exhaustive", samples |-> DefaultSamples, split_dims |-> NoDims, all_data |-> FALSE],
     [search |-> "exhaustive", samples |-> DefaultSamples, split_dims |-> <<0>>, all_data |-> FALSE],
     [search |-> "exhaustive", samples |-> DefaultSamples, split_dims |-> NoDims, all_data |-> TRUE]}
    \cup {[search |-> "grid", samples |-> n, split_dims |-> NoDims, all_data |-> FALSE] :
            n \in GridSamples}

\* __init__ with the given arguments (all of them pass its assertions)
Construct(criterion, depth, msl, opt) ==
    /\ splitting_criterion = criterion
    /\ max_depth = depth
    /\ min_samples_leaf = msl
    /\ search = opt.search
    /\ samples = opt.samples
    /\ split_dims = opt.split_dims
    /\ all_data = opt.all_data
    /\ k = DefaultK
    /\ actual_max_depth = 0
    /\ tree = NoTree
    /\ X_train = <<>> /\ y_train = <<>>
    /\ nFits = 0 /\ nPrunes = 0
    /\ lastOp = "init"
    /\ arg = <<>>
    /\ raised = FALSE
    /\ result = <<>>

InitFit ==
    \E criterion \in Criteria, depth \in 0..MaxDepth, msl \in MinSamplesChoices,
       opt \in Options : Construct(criterion, depth, msl, opt)

\* -------------------------------------------------------------- __init__
\* the split_dims argument is None (not given), one value or a list of
\* values; a value is an int or not: [int |-> FALSE, val |-> n] is n + 0.5
\* "[split_dims] if not isinstance(split_dims, list) else split_dims"
AsList(sd) == IF sd.list THEN sd.value ELSE <<sd.value>>

\* "all(isinstance(dim, int) for dim in split_dims)"
AllInts(dims) == \A n \in 1..Len(dims) : dims[n].int

\* the depth assertion asking for a positive depth
DepthAcceptedPositive(depth) == depth > 0

\* "assert max_depth >= 0"
DepthAccepted(depth) == depth >= 0

\* one of the assertions of __init__ fails
InitRaises(a) ==
    \/ a.split_dims.given /\ ~AllInts(AsList(a.split_dims))
    \/ ~DepthAccepted(a.max_depth)
    \/ ~(a.order > 0)
    \/ ~(a.samples > 0)
    \/ ~(a.k.num * a.k.den > 0)

\* no PolyTree object: the state before the constructor is called, and the
\* state its failure leaves
NoObject ==
    /\ splitting_criterion = "none" /\ max_depth = None /\ search = "none"
    /\ samples = None /\ all_data = FALSE /\ min_samples_leaf = None
    /\ k = NaN /\ split_dims = NoDims /\ actual_max_depth = None /\ tree = NoTree

InitNew ==
    /\ NoObject
    /\ X_train = <<>> /\ y_train = <<>> /\ nFits = 0 /\ nPrunes = 0
    /\ lastOp = "none" /\ arg = <<>> /\ raised = FALSE /\ result = <<>>

\* PolyTree(...) with the arguments a
New(a) ==
    /\ lastOp = "none"
    /\ lastOp' = "init"
    /\ arg' = a
    /\ raised' = InitRaises(a)
    /\ IF InitRaises(a)
       THEN UNCHANGED <<config, derived, tree>>
       ELSE /\ splitting_criterion' = a.splitting_criterion
            /\ max_depth' = a.max_depth
            /\ min_samples_leaf' = a.min_samples_leaf
            /\ search' = a.search
            /\ samples' = a.samples
            /\ all_data' = a.all_data
            /\ k' = a.k
            /\ split_dims' = IF a.split_dims.given
                             THEN [n \in 1..Len(AsList(a.split_dims)) |->
                                     AsList(a.split_dims)[n].val]
                             ELSE NoDims
            /\ actual_max_depth' = 0
            /\ tree' = NoTree
    /\ UNCHANGED <<ghost, result>>

\* ------------------------------------------------------------------- fit
\* int(np.ceil(cardinality * 1.25))
DerivedMinSamples(cardinality) == (5 * cardinality + 3) \div 4

FitMinSamples(msl, cardinality) ==
    IF msl = None \/ msl = cardinality THEN DerivedMinSamples(cardinality) ELSE msl

\* the arrays are those of the last fit call, if there was one
SameArrays(X, y) == nFits > 0 => (X = X_train /\ y = y_train)

\* self.k *= self.min_samples_leaf
FitK(k_, msl) == Rat(k_.num * msl, k_.den)

Fit(X, y) ==
    LET Assign(msl, built) ==
            /\ min_samples_leaf' = msl
            /\ k' = FitK(k, msl)
            /\ split_dims' = built.dims
            /\ actual_max_depth' = built.amd
            /\ tree' = IF built.raised THEN tree ELSE built.nodes
            /\ raised' = built.raised
        Build(msl) == Assign(msl, _build_tree(X, y, msl, actual_max_depth, split_dims))
    IN /\ nFits < MaxFits
       /\ Build(FitMinSamples(min_samples_leaf, BasisCardinality(Len(X[1]))))
       /\ X_train' = X /\ y_train' = y
       /\ nFits' = nFits + 1
       /\ nPrunes' = 0
       /\ lastOp' = "fit"
       /\ arg' = [X |-> X, y |-> y]
       /\ result' = <<>>
       /\ UNCHANGED config

\* ----------------------------------------------------------------- prune
RECURSIVE InSubtree(_, _)
\* position q lies in the subtree rooted at position p
InSubtree(q, p) == q = p \/ (q > p /\ InSubtree(q \div 2, p))

\* node["children"][side] = None: the child at position q goes, with all below it
DropChild(nodes, q) == [r \in {r \in DOMAIN nodes : ~InSubtree(r, q)} |-> nodes[r]]

\* lower_loss: the children's test losses weighted by their n_samples fields
\* (0/0 when both n_samples are 0)
LowerLoss(left, right) ==
    Rat(left.test_loss.num * left.n_samples * right.test_loss.den
          + right.test_loss.num * right.n_samples * left.test_loss.den,
        left.test_loss.den * right.test_loss.den * (left.n_samples + right.n_samples))

\* the test of the pruner with the comparison turned round
CollapsesInverted(lower_loss, test_loss, tolerance) ==
    /\ ~IsNaN(lower_loss)
    /\ 100 * lower_loss.num * test_loss.den + tolerance * test_loss.num * lower_loss.den
         < 100 * test_loss.num * lower_loss.den

\* the test of the pruner with the tolerance taken off the children's side
CollapsesLessWithTolerance(lower_loss, test_loss, tolerance) ==
    /\ ~IsNaN(lower_loss)
    /\ 100 * lower_loss.num * test_loss.den - tolerance * test_loss.num * lower_loss.den
         > 100 * test_loss.num * lower_loss.den

\* lower_loss + tol * test_loss > test_loss, tol being tolerance / 100
Collapses(lower_loss, test_loss, tolerance) ==
    /\ ~IsNaN(lower_loss)
    /\ 100 * lower_loss.num * test_loss.den + tolerance * test_loss.num * lower_loss.den
         > 100 * test_loss.num * lower_loss.den

\* a collapse that also clears the split fields of the collapsed node
CollapseClearsSplit(nodes, p) ==
    [DropChild(DropChild(nodes, Left(p)), Right(p))
        EXCEPT ![p].j_feature = None, ![p].threshold = NoThreshold]

\* a collapse that forgets the right child
CollapseLeftOnly(nodes, p) == DropChild(nodes, Left(p))

\* node["children"]["left"] = None; node["children"]["right"] = None
Collapse(nodes, p) == DropChild(DropChild(nodes, Left(p)), Right(p))

\* a visit without held-out rows that goes on to every node below
EmptyVisitCascades(nodes, p) ==
    [q \in DOMAIN nodes |->
        IF InSubtree(q, p)
        THEN [nodes[q] EXCEPT !.test_loss = Rat(0, 1), !.has_test_loss = TRUE,
                              !.n_samples = 0]
        ELSE nodes[q]]

\* node["test_loss"] = 0; node["n_samples"] = 0; return node
EmptyVisit(nodes, p) ==
    [nodes EXCEPT ![p].test_loss = Rat(0, 1), ![p].has_test_loss = TRUE,
                  ![p].n_samples = 0]

RECURSIVE pruner(_, _, _, _, _, _)
\* pruner(node, X_subset, y_subset) on the node at position p; returns the tree
pruner(nodes, p, X, y, rows, tolerance) ==
    IF Cardinality(rows) < 1 THEN EmptyVisit(nodes, p)
    ELSE
      LET Settle(test_loss, lower_loss, scored) ==
              IF Collapses(lower_loss, test_loss, tolerance)
              THEN Collapse(scored, p)
              ELSE scored
          Weigh(test_loss, below, lower_loss) ==
              Settle(test_loss, lower_loss,
                     [below EXCEPT ![p].lower_loss = lower_loss,
                                   ![p].has_lower_loss = TRUE])
          Below(test_loss, below) ==
              Weigh(test_loss, below, LowerLoss(below[Left(p)], below[Right(p)]))
          Descend(test_loss, tested, sp) ==
              Below(test_loss,
                    pruner(pruner(tested, Left(p), X, y, sp.left, tolerance),
                           Right(p), X, y, sp.right, tolerance))
          Tested(test_loss, tested) ==
              IF ~(Left(p) \in DOMAIN nodes /\ Right(p) \in DOMAIN nodes) THEN tested
              ELSE Descend(test_loss, tested,
                           _split_data(nodes[p].j_feature, nodes[p].threshold, X, rows))
          Test(test_loss) ==
              Tested(test_loss,
                     [nodes EXCEPT ![p].test_loss = test_loss, ![p].has_test_loss = TRUE])
      IN Test(Rat(SquaredError(nodes[p].poly, X, y, rows), Cardinality(rows)))

\* prune's own body: the root's children are pruned, the root itself is not
PruneTree(nodes, X, y, tolerance) ==
    LET Children(sp) ==
            pruner(pruner(nodes, Left(Root), X, y, sp.left, tolerance),
                   Right(Root), X, y, sp.right, tolerance)
    IN Children(_split_data(nodes[Root].j_feature, nodes[Root].threshold, X, AllRows(X)))

\* _split_data(None, None, X, y) raises (no column None, no order with None);
\* so does subscripting the None that is a leaf root's child
PruneRaises(nodes) ==
    nodes = NoTree \/ nodes[Root].j_feature = None \/ Left(Root) \notin DOMAIN nodes

Prune(X, y, tolerance) ==
    /\ nPrunes < MaxPrunes
    /\ tree' = IF PruneRaises(tree) THEN tree ELSE PruneTree(tree, X, y, tolerance)
    /\ nPrunes' = nPrunes + 1
    /\ lastOp' = "prune"
    /\ arg' = [X |-> X, y |-> y, tol |-> tolerance]
    /\ raised' = PruneRaises(tree)
    /\ result' = <<>>
    /\ UNCHANGED <<config, derived, X_train, y_train, nFits>>

\* --------------------------------------------------------------- routing
IsLeaf(nodes, p) == Left(p) \notin DOMAIN nodes /\ Right(p) \notin DOMAIN nodes

\* the comparison of apply and predict made strict
GoesLeftStrict(nodes, p, x) ==
    x[nodes[p].j_feature + 1] * nodes[p].threshold.den < nodes[p].threshold.num

\* X[j_feature] <= threshold for the row x and the node at position p
GoesLeft(nodes, p, x) ==
    x[nodes[p].j_feature + 1] * nodes[p].threshold.den <= nodes[p].threshold.num

RECURSIVE Route(_, _, _)
\* the positions a row visits from position p down to its leaf
Route(nodes, p, x) ==
    IF IsLeaf(nodes, p) THEN <<p>>
    ELSE <<p>> \o Route(nodes, IF GoesLeft(nodes, p, x) THEN Left(p) ELSE Right(p), x)

Last(seq) == seq[Len(seq)]

\* --------------------------------------------------------------- predict
\* y_pred[row]: for every level of the buffer, the (prediction, n_samples)
\* written by the node of that depth on the row's path, or NaN
Buffer(nodes, amd, x) ==
    LET Written(path) ==
            [level \in 0..(amd + 1) |->
               IF \E n \in 1..Len(path) : nodes[path[n]].depth = level
               THEN LET q == path[CHOOSE n \in 1..Len(path) : nodes[path[n]].depth = level]
                    IN [nan |-> FALSE, pred |-> GetPolyfit(nodes[q].poly, x),
                        n |-> nodes[q].n_samples]
               ELSE [nan |-> TRUE, pred |-> 0, n |-> 0]]
    IN Written(Route(nodes, Root, x))

\* a write to y_pred[:, node["depth"]] beyond the buffer's last level
BufferOverrun(nodes, amd, x) ==
    LET Beyond(path) == \E n \in 1..Len(path) : nodes[path[n]].depth > amd + 1
    IN Beyond(Route(nodes, Root, x))

RECURSIVE Deepest(_, _)
\* while np.isnan(y_pred[y][i][0]) and i > 0: i -= 1
Deepest(buffer, i) == IF buffer[i].nan /\ i > 0 THEN Deepest(buffer, i - 1) ELSE i

\* (smoothed_y * n_i + y_pred[y][i][0] * k) / (k + n_i)
Blend(smoothed_y, n_i, pred, k_) ==
    Rat(smoothed_y.num * n_i * k_.den + pred * k_.num * smoothed_y.den,
        smoothed_y.den * (k_.num + n_i * k_.den))

RECURSIVE Smooth(_, _, _, _)
\* the loop "while i > 0" of predict
Smooth(buffer, i, smoothed_y, k_) ==
    IF i > 0 /\ buffer[i].n # 0
    THEN Smooth(buffer, i - 1, Blend(smoothed_y, buffer[i].n, buffer[i].pred, k_), k_)
    ELSE smoothed_y

PredictRow(nodes, amd, k_, x) ==
    LET From(buffer, i) == Smooth(buffer, i, Rat(buffer[i].pred, 1), k_)
        Filled(buffer) == From(buffer, Deepest(buffer, amd + 1))
    IN Filled(Buffer(nodes, amd, x))

\* the deepest level a node of the tree lies on
DeepestLevel(nodes) ==
    CHOOSE d \in {nodes[p].depth : p \in DOMAIN nodes} :
        \A p \in DOMAIN nodes : nodes[p].depth <= d

\* a predict that sizes its buffer by writing the tree's depth back to
\* self.actual_max_depth
PredictTracksDepth(X) ==
    /\ tree # NoTree
    /\ lastOp' = "predict"
    /\ arg' = X
    /\ raised' = FALSE
    /\ actual_max_depth' = DeepestLevel(tree)
    /\ result' = [r \in 1..Len(X) |-> PredictRow(tree, DeepestLevel(tree), k, X[r])]
    /\ UNCHANGED <<config, min_samples_leaf, k, split_dims, tree, ghost>>

PredictRaises(nodes, amd, X) ==
    nodes = NoTree \/ \E r \in 1..Len(X) : BufferOverrun(nodes, amd, X[r])

Predict(X) ==
    LET Return(fails) ==
            /\ raised' = fails
            /\ result' = IF fails THEN <<>>
                         ELSE [r \in 1..Len(X) |->
                                 PredictRow(tree, actual_max_depth, k, X[r])]
    IN /\ lastOp' = "predict"
       /\ arg' = X
       /\ Return(PredictRaises(tree, actual_max_depth, X))
       /\ UNCHANGED <<config, derived, tree, ghost>>

\* ----------------------------------------------------------------- apply
ApplyRows(nodes, X) == [r \in 1..Len(X) |-> nodes[Last(Route(nodes, Root, X[r]))].index]

Apply(X) ==
    /\ lastOp' = "apply"
    /\ arg' = X
    /\ raised' = (tree = NoTree)
    /\ result' = IF tree = NoTree THEN <<>> ELSE ApplyRows(tree, X)
    /\ UNCHANGED <<config, derived, tree, ghost>>

\* ------------------------------------------------------------ get_splits
SplitOf(node) == [threshold |-> node.threshold, j_feature |-> node.j_feature]

\* "if [threshold, j_feature] not in splits: splits.append(...)"
AppendNew(splits, sp) ==
    IF \E n \in 1..Len(splits) :
          splits[n].j_feature = sp.j_feature /\ RatEq(splits[n].threshold, sp.threshold)
    THEN splits ELSE Append(splits, sp)

RECURSIVE SearchSplits(_, _, _)
SearchSplits(nodes, p, splits) ==
    LET Right_(s1) ==
            IF Right(p) \in DOMAIN nodes
            THEN SearchSplits(nodes, Right(p), AppendNew(s1, SplitOf(nodes[p])))
            ELSE s1
    IN Right_(IF Left(p) \in DOMAIN nodes
              THEN SearchSplits(nodes, Left(p), AppendNew(splits, SplitOf(nodes[p])))
              ELSE splits)

GetSplits ==
    /\ lastOp' = "get_splits"
    /\ arg' = <<>>
    /\ raised' = (tree = NoTree)
    /\ result' = IF tree = NoTree THEN <<>> ELSE SearchSplits(tree, Root, <<>>)
    /\ UNCHANGED <<config, derived, tree, ghost>>

\* ------------------------------------------------------------- get_polys
RECURSIVE SearchPolys(_, _, _)
SearchPolys(nodes, p, polys) ==
    LET Right_(s1) ==
            IF Right(p) \in DOMAIN nodes THEN SearchPolys(nodes, Right(p), s1) ELSE s1
        Left_(s0) ==
            Right_(IF Left(p) \in DOMAIN nodes THEN SearchPolys(nodes, Left(p), s0) ELSE s0)
    IN Left_(IF IsLeaf(nodes, p) THEN Append(polys, nodes[p].poly) ELSE polys)

GetPolys ==
    /\ lastOp' = "get_polys"
    /\ arg' = <<>>
    /\ raised' = (tree = NoTree)
    /\ result' = IF tree = NoTree THEN <<>> ELSE SearchPolys(tree, Root, <<>>)
    /\ UNCHANGED <<config, derived, tree, ghost>>

\* -------------------------------------------------------------- get_node
NoNode == 0

RECURSIVE _get_node_from_n(_, _, _)
\* the position of the node found for index i below position p: the node
\* itself, else the right subtree, else the left one
_get_node_from_n(nodes, p, i) ==
    LET Else(right) ==
            IF right = NoNode THEN _get_node_from_n(nodes, Left(p), i) ELSE right
    IN IF p \notin DOMAIN nodes THEN NoNode
       ELSE IF nodes[p].index = i THEN p
       ELSE Else(_get_node_from_n(nodes, Right(p), i))

GetNodeByIndex(i) ==
    LET Return(at) == result' = IF at = NoNode THEN <<>> ELSE <<tree[at]>>
    IN /\ lastOp' = "get_node"
       /\ arg' = i
       /\ raised' = FALSE
       /\ Return(_get_node_from_n(tree, Root, i))
       /\ UNCHANGED <<config, derived, tree, ghost>>

GetNodeByVector(x) ==
    /\ lastOp' = "get_node"
    /\ arg' = x
    /\ raised' = (tree = NoTree)
    /\ result' = IF tree = NoTree THEN <<>> ELSE <<tree[Last(Route(tree, Root, x))]>>
    /\ UNCHANGED <<config, derived, tree, ghost>>

\* ------------------------------------------------------------- get_paths
NoX == <<>>

InfoOf(node) == [node |-> node.index, j |-> node.j_feature, thresh |-> node.threshold]

\* a path.remove(info) that removes nothing
RemoveNothing(path, info) == path

\* path.remove(info): the first entry equal to info goes
RemoveFirst(path, info) ==
    IF \E n \in 1..Len(path) : path[n] = info
    THEN LET at == CHOOSE n \in 1..Len(path) :
                      path[n] = info /\ \A m \in 1..(n - 1) : path[m] # info
         IN SubSeq(path, 1, at - 1) \o SubSeq(path, at + 1, Len(path))
    ELSE path

RECURSIVE _find_path(_, _, _, _)
_find_path(nodes, p, path, i) ==
    LET info == InfoOf(nodes[p])
        Leave(left, right) ==
            IF left.found \/ right.found THEN [found |-> TRUE, path |-> right.path]
            ELSE [found |-> FALSE, path |-> RemoveFirst(right.path, info)]
        Right_(left) ==
            Leave(left, IF Right(p) \in DOMAIN nodes
                        THEN _find_path(nodes, Right(p), left.path, i)
                        ELSE [found |-> FALSE, path |-> left.path])
        Enter(entered) ==
            IF nodes[p].index = i THEN [found |-> TRUE, path |-> entered]
            ELSE Right_(IF Left(p) \in DOMAIN nodes
                        THEN _find_path(nodes, Left(p), entered, i)
                        ELSE [found |-> FALSE, path |-> entered])
    IN Enter(Append(path, info))

\* path_leaf[-1]["j"] = None; path_leaf[-1]["thresh"] = None
NullLast(path) ==
    [path EXCEPT ![Len(path)] = [@ EXCEPT !.j = None, !.thresh = NoThreshold]]

\* the dict of paths, as the list of its (leaf, path) items by ascending leaf
PathsOf(nodes, X) ==
    LET Paths(leaves) ==
            [n \in 1..Len(leaves) |->
               [leaf |-> leaves[n],
                path |-> NullLast(_find_path(nodes, Root, <<>>, leaves[n]).path)]]
        Unique(leave_id) == Paths(SortSet({leave_id[r] : r \in 1..Len(leave_id)}))
    IN Unique(ApplyRows(nodes, X))

\* X = self.tree["data"][0] needs the root to hold its data still
GetPathsRaises(nodes, X) == nodes = NoTree \/ (X = NoX /\ ~nodes[Root].has_data)

\* self.tree["data"][0]: the training rows the root holds
RootData(nodes, X) == [r \in 1..Cardinality(nodes[Root].data) |-> X[SortSet(nodes[Root].data)[r]]]

GetPaths(X) ==
    /\ lastOp' = "get_paths"
    /\ arg' = X
    /\ raised' = GetPathsRaises(tree, X)
    /\ result' = IF GetPathsRaises(tree, X) THEN <<>>
                 ELSE PathsOf(tree, IF X = NoX THEN RootData(tree, X_train) ELSE X)
    /\ UNCHANGED <<config, derived, tree, ghost>>

\* ------------------------------------------------------------------ Spec
\* the arrays the operations are called with
QueryX == {SortPoints(Points)}
NTest == 2
TestX == {SortPoints(S) : S \in {T \in SUBSET {p \in Points : p[2] = 0} : Cardinality(T) = NTest}}
TestY == [1..NTest -> YVals]
Tolerances == {0, 50}
IndexProbes == {5}
Probes == {<<1, 0>>}

\* training arrays that hold every row with feature 1 = 0, and the row <<0, 1>>
LifeX == {X \in TrainX :
            {p \in Points : p[2] = 0} \cup {<<0, 1>>} \subseteq {X[r] : r \in 1..Len(X)}}

\* training targets whose first row is 0
LifeY == {y \in TrainY : y[1] = 0}

\* every criterion with the constructor's defaults, and model_aware with
\* all_data set as well
Init ==
    \E criterion \in Criteria, all \in BOOLEAN :
        /\ all => criterion = "model_aware"
        /\ Construct(criterion, MaxDepth, 1,
                     [search |-> "exhaustive", samples |-> DefaultSamples,
                      split_dims |-> NoDims, all_data |-> all])

Next ==
    \/ \E X \in LifeX, y \in LifeY : SameArrays(X, y) /\ Fit(X, y)
    \/ \E X \in TestX, y \in TestY, tolerance \in Tolerances : Prune(X, y, tolerance)
    \/ \E X \in QueryX : Predict(X)
    \/ \E X \in QueryX : Apply(X)
    \/ GetSplits
    \/ GetPolys
    \/ \E i \in IndexProbes : GetNodeByIndex(i)
    \/ \E x \in Probes : GetNodeByVector(x)
    \/ \E X \in QueryX \cup {NoX} : GetPaths(X)

Spec == Init /\ [][Next]_vars

\* --------------------------------------------------------------- SpecFit
\* one fit of a freshly constructed object, under every configuration and
\* on every training array, followed by apply on the training array
NextFit ==
    \/ \E X \in TrainX, y \in TrainY : nFits = 0 /\ Fit(X, y)
    \/ lastOp = "fit" /\ ~raised /\ Apply(X_train)

SpecFit == InitFit /\ [][NextFit]_vars

\* --------------------------------------------------------------- SpecNew
\* one constructor call, with arguments on both sides of every assertion
SplitDimsArgs ==
    {[given |-> FALSE, list |-> FALSE, value |-> <<>>],
     [given |-> TRUE, list |-> FALSE, value |-> [int |-> TRUE, val |-> 0]],
     [given |-> TRUE, list |-> FALSE, value |-> [int |-> FALSE, val |-> 0]],
     [given |-> TRUE, list |-> TRUE, value |-> <<>>],
     [given |-> TRUE, list |-> TRUE, value |-> <<[int |-> TRUE, val |-> 0]>>],
     [given |-> TRUE, list |-> TRUE,
      value |-> <<[int |-> TRUE, val |-> 0], [int |-> TRUE, val |-> 1]>>],
     [given |-> TRUE, list |-> TRUE,
      value |-> <<[int |-> TRUE, val |-> 0], [int |-> FALSE, val |-> 1]>>]}

NewArgs ==
    [splitting_criterion : Criteria,
     max_depth : {-1, 0, MaxDepth},
     min_samples_leaf : {None},
     order : {0, 1},
     search : {"exhaustive"},
     samples : {0, DefaultSamples},
     all_data : {FALSE},
     split_dims : SplitDimsArgs,
     k : {Rat(-1, 20), Rat(0, 1), DefaultK}]

NextNew == \E a \in NewArgs : New(a)

SpecNew == InitNew /\ [][NextNew]_vars

\* -------------------------------------------------------------- SpecGrad
\* one call of the gradient split selector on the rows of a whole array, for
\* the polynomial fitted to them; both features take every value of XVals
GradX == {SortPoints(S) : S \in {T \in SUBSET (XVals \X XVals) : Cardinality(T) = NRows}}
GradDims == {<<0>>, <<0, 1>>, <<1, 0>>}

InitGrad ==
    \E msl \in {1, 2}, dims \in GradDims :
        Construct("loss_gradient", MaxDepth, msl,
                  [search |-> "exhaustive", samples |-> DefaultSamples,
                   split_dims |-> dims, all_data |-> FALSE])

\* self._find_split_from_grad(poly, X, y) for the poly that _fit_poly gives
FindSplitFromGrad(X, y) ==
    LET Return(found) ==
            /\ result' = [did_split |-> found.did_split, split_dim |-> found.j_feature,
                          split_val |-> found.threshold]
            /\ raised' = found.raised
    IN /\ lastOp = "init"
       /\ lastOp' = "_find_split_from_grad"
       /\ arg' = [X |-> X, y |-> y]
       /\ Return(_find_split_from_grad(_fit_poly(X, y, AllRows(X), 0).poly, X, y,
                                       AllRows(X), split_dims, min_samples_leaf))
       /\ UNCHANGED <<config, derived, tree, ghost>>

NextGrad == \E X \in GradX, y \in TrainY : FindSplitFromGrad(X, y)

SpecGrad == InitGrad /\ [][NextGrad]_vars

\* -------------------------------------------------------------- SpecRefit
\* fit, fit again with the same arrays, and predict in between and after,
\* for every criterion and every choice of min_samples_leaf
InitRefit ==
    \E criterion \in Criteria, msl \in MinSamplesChoices :
        Construct(criterion, MaxDepth, msl,
                  [search |-> "exhaustive", samples |-> DefaultSamples,
                   split_dims |-> NoDims, all_data |-> FALSE])

NextRefit ==
    \/ \E X \in TrainX, y \in TrainY : SameArrays(X, y) /\ Fit(X, y)
    \/ \E X \in QueryX : lastOp = "fit" /\ Predict(X)

SpecRefit == InitRefit /\ [][NextRefit]_vars

\* ---------------------------------------------------------------- SpecBad
\* fit on objects whose splitting_criterion or search is, or is not, one of
\* the names the split search knows
BadCriteria == Criteria \cup {"other"}
BadOptions ==
    Options \cup {[search |-> "other", samples |-> DefaultSamples,
                   split_dims |-> NoDims, all_data |-> FALSE]}

InitBad ==
    \E criterion \in BadCriteria, depth \in 0..MaxDepth, opt \in BadOptions :
        Construct(criterion, depth, 1, opt)

NextBad == \E X \in TrainX, y \in TrainY : SameArrays(X, y) /\ Fit(X, y)

SpecBad == InitBad /\ [][NextBad]_vars

\* -------------------------------------------------------------- SpecDepth
\* fit calls with any of the lifecycle's arrays, each possibly different
\* from the one before, with prune and predict calls in between
InitDepth ==
    \E criterion \in Criteria :
        Construct(criterion, MaxDepth, 1,
                  [search |-> "exhaustive", samples |-> DefaultSamples,
                   split_dims |-> NoDims, all_data |-> FALSE])

\* training targets whose first and third rows are 0
DepthY == {y \in LifeY : y[3] = 0}

NextDepth ==
    \/ \E X \in LifeX, y \in DepthY : Fit(X, y)
    \/ \E X \in TestX, y \in TestY, tolerance \in Tolerances : Prune(X, y, tolerance)
    \/ \E X \in QueryX : Predict(X)

SpecDepth == InitDepth /\ [][NextDepth]_vars

\* ================================================================ claims
HasChildren(nodes, p) == Left(p) \in DOMAIN nodes /\ Right(p) \in DOMAIN nodes

RECURSIVE StoredRows(_, _)
\* the training rows held below position p: the node's own data where it is
\* kept, else what its children hold
StoredRows(nodes, p) ==
    IF nodes[p].has_data THEN nodes[p].data
    ELSE IF HasChildren(nodes, p)
    THEN StoredRows(nodes, Left(p)) \cup StoredRows(nodes, Right(p))
    ELSE {}

RECURSIVE Level(_)
\* the number of edges between the root and position p
Level(p) == IF p = Root THEN 0 ELSE 1 + Level(p \div 2)

\* a fit has built the tree and nothing has pruned it since
FreshlyFitted == tree # NoTree /\ nPrunes = 0

\* C1: after fit, the rows of every node with children are partitioned by its
\* rule: the left child holds exactly the rows whose feature j_feature is <=
\* threshold, the right child the others, and the children's n_samples add up
\* to the node's
C1_Partition ==
    FreshlyFitted =>
        /\ StoredRows(tree, Root) = AllRows(X_train)
        /\ \A p \in DOMAIN tree :
              /\ tree[p].n_samples = Cardinality(StoredRows(tree, p))
              /\ Left(p) \in DOMAIN tree \/ Right(p) \in DOMAIN tree =>
                    /\ HasChildren(tree, p)
                    /\ tree[p].j_feature \in Dims(X_train)
                    /\ tree[p].threshold.den > 0
                    /\ StoredRows(tree, Left(p)) =
                          {r \in StoredRows(tree, p) :
                              X_train[r][tree[p].j_feature + 1] * tree[p].threshold.den
                                  <= tree[p].threshold.num}
                    /\ StoredRows(tree, Right(p)) =
                          {r \in StoredRows(tree, p) :
                              X_train[r][tree[p].j_feature + 1] * tree[p].threshold.den
                                  > tree[p].threshold.num}
                    /\ tree[Left(p)].n_samples + tree[Right(p)].n_samples
                          = tree[p].n_samples

\* a fit with the grid search has split the root and one of its children
C1_Witness ==
    /\ lastOp = "fit" /\ ~raised
    /\ search = "grid"
    /\ \E p \in DOMAIN tree : p # Root /\ HasChildren(tree, p)

\* C2: after fit no node lies deeper than max_depth, a node at depth
\* max_depth has no children, and max_depth = 0 leaves the root a leaf
C2_DepthBound ==
    FreshlyFitted =>
        /\ \A p \in DOMAIN tree :
              /\ tree[p].depth = Level(p)
              /\ Level(p) <= max_depth
              /\ Level(p) = max_depth => IsLeaf(tree, p)
        /\ max_depth = 0 => DOMAIN tree = {Root}

\* a leaf at depth max_depth that holds enough rows for another split
C2_Witness ==
    /\ lastOp = "fit" /\ ~raised
    /\ splitting_criterion = "model_agnostic"
    /\ \E p \in DOMAIN tree :
          /\ p # Root /\ tree[p].depth = max_depth
          /\ tree[p].n_samples >= 2 * min_samples_leaf
          /\ Cardinality({X_train[r][1] : r \in tree[p].data}) > 1

\* no threshold on any feature leaves min_samples_leaf rows on both sides
NoAdmissibleRootSplit ==
    \A j \in Dims(X_train), r \in AllRows(X_train) :
        \/ Cardinality({q \in AllRows(X_train) : X_train[q][j + 1] <= X_train[r][j + 1]})
              < min_samples_leaf
        \/ Cardinality({q \in AllRows(X_train) : X_train[q][j + 1] > X_train[r][j + 1]})
              < min_samples_leaf

\* C3: after fit every node but the root holds at least min_samples_leaf
\* training rows; when no split of the root can give both sides that many,
\* the tree is the root alone
C3_MinSamples ==
    FreshlyFitted =>
        /\ \A p \in DOMAIN tree \ {Root} :
              /\ tree[p].n_samples >= min_samples_leaf
              /\ Cardinality(StoredRows(tree, p)) >= min_samples_leaf
        /\ NoAdmissibleRootSplit => DOMAIN tree = {Root}

\* a split made under min_samples_leaf = 2
C3_Witness ==
    /\ lastOp = "fit" /\ ~raised
    /\ min_samples_leaf = 2
    /\ HasChildren(tree, Root)

\* C5: after fit no two nodes share an index, and every node's index is
\* smaller than its left child's, which is smaller than its right child's
C5_Indices ==
    FreshlyFitted =>
        /\ \A p, q \in DOMAIN tree : p # q => tree[p].index # tree[q].index
        /\ \A p \in DOMAIN tree :
              HasChildren(tree, p) =>
                  /\ tree[p].index < tree[Left(p)].index
                  /\ tree[Left(p)].index < tree[Right(p)].index

\* a model_aware fit, whose search fits advance the counter too, has grown
\* two levels
C5_Witness ==
    /\ lastOp = "fit" /\ ~raised
    /\ splitting_criterion = "model_aware"
    /\ \E p \in DOMAIN tree : p # Root /\ HasChildren(tree, p)

\* C6: apply on the training array gives, for every row, the index of a leaf
\* that stores the row, and no other leaf stores it
C6_ApplyTrain ==
    (lastOp = "apply" /\ ~raised /\ arg = X_train /\ nPrunes = 0) =>
        \A r \in AllRows(X_train) :
            \E p \in DOMAIN tree :
                /\ IsLeaf(tree, p)
                /\ tree[p].index = result[r]
                /\ tree[p].has_data /\ r \in tree[p].data
                /\ \A q \in DOMAIN tree :
                      (IsLeaf(tree, q) /\ tree[q].has_data /\ r \in tree[q].data) => q = p

\* apply has run on the training array of a tree of three leaves
C6_Witness ==
    /\ lastOp = "apply" /\ ~raised /\ arg = X_train
    /\ Cardinality({p \in DOMAIN tree : IsLeaf(tree, p)}) >= 3

\* C7: after a model_aware fit, the children's training losses, weighted by
\* their numbers of rows, average to less than the loss of their parent
C7_AwareImproves ==
    (FreshlyFitted /\ splitting_criterion = "model_aware") =>
        \A p \in DOMAIN tree :
            HasChildren(tree, p) =>
                /\ tree[Left(p)].n_samples + tree[Right(p)].n_samples = tree[p].n_samples
                /\ (tree[Left(p)].n_samples * tree[Left(p)].loss.num * tree[Right(p)].loss.den
                      + tree[Right(p)].n_samples * tree[Right(p)].loss.num * tree[Left(p)].loss.den)
                     * tree[p].loss.den
                   < tree[p].loss.num * tree[p].n_samples
                       * tree[Left(p)].loss.den * tree[Right(p)].loss.den

\* a model_aware fit has split a node of three rows below the root
C7_Witness ==
    /\ lastOp = "fit" /\ ~raised
    /\ splitting_criterion = "model_aware"
    /\ \E p \in DOMAIN tree : p # Root /\ HasChildren(tree, p) /\ tree[p].n_samples = 3

\* C4: whatever fit and prune calls have run, every node has both children
\* or none (and every node but the root hangs below a node of the tree)
C4_BothOrNeither ==
    tree # NoTree =>
        \A p \in DOMAIN tree :
            /\ Left(p) \in DOMAIN tree <=> Right(p) \in DOMAIN tree
            /\ p # Root => p \div 2 \in DOMAIN tree

\* a prune after the second fit has collapsed a node
C4_Witness ==
    /\ lastOp = "prune" /\ ~raised /\ nFits = 2
    /\ \E p \in DOMAIN tree : tree[p].has_lower_loss /\ IsLeaf(tree, p)

ReadOnlyOps == {"predict", "apply", "get_splits", "get_polys", "get_node", "get_paths"}

\* what predict returns in the current state, for every array it may be given
Predicted ==
    [X \in QueryX |->
        IF PredictRaises(tree, actual_max_depth, X) THEN <<>>
        ELSE [r \in 1..Len(X) |-> PredictRow(tree, actual_max_depth, k, X[r])]]

\* C8: a step of predict, apply, get_splits, get_polys, get_node or get_paths
\* changes neither the tree nor k, min_samples_leaf, actual_max_depth and
\* split_dims, and what a predict step returns is the value that these
\* unchanged parts determine for its input
C8_ReadOnly ==
    [][lastOp' \in ReadOnlyOps =>
          /\ UNCHANGED <<tree, k, min_samples_leaf, actual_max_depth, split_dims>>
          /\ (lastOp' = "predict" /\ arg' \in QueryX) =>
                (raised' = (Predicted[arg'] = <<>>) /\ result' = Predicted[arg'])]_vars

\* predict has run on a tree of two levels that a prune has worked on
C8_Witness ==
    /\ lastOp = "predict" /\ ~raised
    /\ nPrunes > 0
    /\ \E p \in DOMAIN tree : p # Root /\ HasChildren(tree, p)

RECURSIVE Reaches(_, _, _)
\* the row x, sent down from the root by the rules of the nodes, comes by
\* position p
Reaches(nodes, p, x) ==
    \/ p = Root
    \/ /\ p \div 2 \in DOMAIN nodes
       /\ Reaches(nodes, p \div 2, x)
       /\ (p = Left(p \div 2)) <=>
             (x[nodes[p \div 2].j_feature + 1] * nodes[p \div 2].threshold.den
                 <= nodes[p \div 2].threshold.num)

\* the held-out rows of the last prune that come by position p
Held(p) == {r \in 1..Len(arg.X) : Reaches(tree, p, arg.X[r])}

\* the squared error of the node's polynomial on its held-out rows
HeldError(p) == SquaredError(tree[p].poly, arg.X, arg.y, Held(p))

\* the node's loss on its held-out rows, 0 when it has none
HeldLoss(p) == IF Held(p) = {} THEN Rat(0, 1) ELSE Rat(HeldError(p), Cardinality(Held(p)))

\* the children's held-out losses averaged with their n_samples as weights
HeldLowerLoss(p) ==
    Rat(HeldLoss(Left(p)).num * tree[Left(p)].n_samples * HeldLoss(Right(p)).den
          + HeldLoss(Right(p)).num * tree[Right(p)].n_samples * HeldLoss(Left(p)).den,
        HeldLoss(Left(p)).den * HeldLoss(Right(p)).den
          * (tree[Left(p)].n_samples + tree[Right(p)].n_samples))

\* the first prune after a fit has just run, with tolerance 0
PrunedAtZero == lastOp = "prune" /\ ~raised /\ arg.tol = 0 /\ nPrunes = 1

\* C9 as stated: after prune with tolerance 0, no node with children, the
\* root included, has children whose held-out losses, averaged by the numbers
\* of held-out rows, reach or exceed the node's own held-out loss
C9_Original ==
    PrunedAtZero =>
        \A p \in DOMAIN tree :
            (HasChildren(tree, p) /\ Held(p) # {}) =>
                HeldError(Left(p)) + HeldError(Right(p)) < HeldError(p)

\* C9: after the first prune of a fitted tree, with tolerance 0, every node
\* below the root that got a held-out row carries its held-out loss as
\* test_loss; if it still has children it carries as lower_loss the average
\* of their held-out losses weighted by their n_samples, and that average
\* does not exceed its test_loss (it may equal it)
C9_Amended ==
    PrunedAtZero =>
        \A p \in DOMAIN tree \ {Root} :
            Held(p) # {} =>
                /\ tree[p].has_test_loss
                /\ RatEq(tree[p].test_loss, HeldLoss(p))
                /\ HasChildren(tree, p) =>
                      /\ tree[p].has_lower_loss
                      /\ RatEq(tree[p].lower_loss, HeldLowerLoss(p))
                      /\ ~RatLess(HeldLoss(p), HeldLowerLoss(p))

\* a node below the root keeps its children with lower_loss equal to its
\* test_loss
C9_Witness ==
    /\ PrunedAtZero
    /\ \E p \in DOMAIN tree \ {Root} :
          /\ HasChildren(tree, p) /\ Held(p) # {}
          /\ RatEq(HeldLowerLoss(p), HeldLoss(p))

\* C10: for the tree a fit or a prune has left, the same held-out arrays and
\* two tolerances t1 <= t2, the nodes that prune with t2 leaves are among the
\* nodes that prune with t1 leaves
C10_Monotone ==
    (lastOp \in {"fit", "prune"} /\ ~PruneRaises(tree)) =>
        \A X \in TestX, y \in TestY, t1, t2 \in Tolerances :
            t1 < t2 =>
                DOMAIN PruneTree(tree, X, y, t2) \subseteq DOMAIN PruneTree(tree, X, y, t1)

\* a prune with the larger tolerance has collapsed a node whose children's
\* average loss does not exceed its own
C10_Witness ==
    /\ lastOp = "prune" /\ ~raised /\ arg.tol > 0
    /\ \E p \in DOMAIN tree :
          /\ tree[p].has_lower_loss /\ IsLeaf(tree, p)
          /\ ~RatLess(tree[p].test_loss, tree[p].lower_loss)

\* C11: a prune step only removes children: the nodes it leaves are among the
\* nodes it found and the root is one of them, so no node gains a child, and
\* every node it leaves keeps its index, depth, poly, j_feature and threshold
C11_PruneOnlyRemoves ==
    [][(lastOp' = "prune" /\ tree # NoTree) =>
          /\ DOMAIN tree' \subseteq DOMAIN tree
          /\ Root \in DOMAIN tree'
          /\ \A p \in DOMAIN tree' :
                /\ Left(p) \in DOMAIN tree' => Left(p) \in DOMAIN tree
                /\ Right(p) \in DOMAIN tree' => Right(p) \in DOMAIN tree
                /\ tree'[p].index = tree[p].index
                /\ tree'[p].depth = tree[p].depth
                /\ tree'[p].poly = tree[p].poly
                /\ tree'[p].j_feature = tree[p].j_feature
                /\ tree'[p].threshold = tree[p].threshold]_vars

\* a prune with tolerance 0 has collapsed a node below the root, whose split
\* fields are still in place, and left the root its children
C11_Witness ==
    /\ lastOp = "prune" /\ ~raised /\ arg.tol = 0
    /\ HasChildren(tree, Root)
    /\ \E p \in DOMAIN tree \ {Root} :
          /\ tree[p].has_lower_loss /\ IsLeaf(tree, p)
          /\ tree[p].j_feature # None

\* C12: the constructor fails, and leaves no object, exactly when max_depth
\* < 0, order <= 0, samples <= 0, k <= 0 or split_dims holds a value that is
\* not an int; every other configuration is accepted and stored as given
C12_Validation ==
    lastOp = "init" =>
        /\ raised <=>
              \/ arg.max_depth < 0
              \/ arg.order <= 0
              \/ arg.samples <= 0
              \/ arg.k.num <= 0
              \/ /\ arg.split_dims.given /\ arg.split_dims.list
                 /\ \E n \in 1..Len(arg.split_dims.value) : ~arg.split_dims.value[n].int
              \/ /\ arg.split_dims.given /\ ~arg.split_dims.list
                 /\ ~arg.split_dims.value.int
        /\ raised => NoObject
        /\ ~raised =>
              /\ max_depth = arg.max_depth /\ samples = arg.samples /\ k = arg.k
              /\ splitting_criterion = arg.splitting_criterion
              /\ arg.split_dims.given <=> split_dims # NoDims
              /\ tree = NoTree

\* the constructor has accepted max_depth = 0 with one split dimension given
\* as a bare int
C12_Witness ==
    /\ lastOp = "init" /\ ~raised
    /\ max_depth = 0
    /\ arg.split_dims.given /\ ~arg.split_dims.list
    /\ split_dims = <<0>>

RECURSIVE Up(_, _)
\* the position n levels above position q
Up(q, n) == IF n = 0 THEN q ELSE Up(q \div 2, n - 1)

\* the leaves the rows of X come to
LeavesReached(nodes, X) ==
    {q \in DOMAIN nodes : IsLeaf(nodes, q) /\ \E r \in 1..Len(X) : Reaches(nodes, q, X[r])}

\* C13: get_paths(X) returns one entry for every leaf a row of X comes to and
\* no other; the entry of a leaf lists the nodes from the root down to it,
\* each with its index and, above the leaf, its own j_feature and threshold,
\* the leaf's record having both set to None
C13_Paths ==
    (lastOp = "get_paths" /\ ~raised /\ arg # NoX) =>
        /\ Len(result) = Cardinality(LeavesReached(tree, arg))
        /\ {result[n].leaf : n \in 1..Len(result)}
              = {tree[q].index : q \in LeavesReached(tree, arg)}
        /\ \A n \in 1..Len(result) :
              \E q \in LeavesReached(tree, arg) :
                  /\ tree[q].index = result[n].leaf
                  /\ Len(result[n].path) = Level(q) + 1
                  /\ \A m \in 1..(Level(q) + 1) :
                        /\ result[n].path[m].node = tree[Up(q, Level(q) + 1 - m)].index
                        /\ result[n].path[m].j =
                              IF m = Level(q) + 1 THEN None
                              ELSE tree[Up(q, Level(q) + 1 - m)].j_feature
                        /\ result[n].path[m].thresh =
                              IF m = Level(q) + 1 THEN NoThreshold
                              ELSE tree[Up(q, Level(q) + 1 - m)].threshold

\* get_paths has returned the paths of three leaves, one of them two levels
\* below the root
C13_Witness ==
    /\ lastOp = "get_paths" /\ ~raised /\ arg # NoX
    /\ Len(result) >= 3
    /\ \E n \in 1..Len(result) : Len(result[n].path) = 3

\* C14: get_paths() without a dataset, on any fitted tree and whatever
\* all_data is, does not fail and returns the paths of exactly the leaves the
\* training rows come to
C14_DefaultData ==
    (lastOp = "get_paths" /\ arg = NoX /\ tree # NoTree) =>
        /\ ~raised
        /\ {result[n].leaf : n \in 1..Len(result)}
              = {tree[q].index : q \in LeavesReached(tree, X_train)}

RECURSIVE Climb(_, _, _, _, _)
\* the blend applied once for every ancestor of position q, from its parent
\* up to the root, stopping at an ancestor without samples
Climb(nodes, q, smoothed, x, k_) ==
    IF q = Root \/ nodes[q \div 2].n_samples = 0 THEN smoothed
    ELSE Climb(nodes, q \div 2,
               Blend(smoothed, nodes[q \div 2].n_samples,
                     GetPolyfit(nodes[q \div 2].poly, x), k_),
               x, k_)

\* C15: predict returns, for every row, the prediction of the row's leaf
\* blended with the prediction of every ancestor of the leaf in turn, the
\* root's included
C15_BlendToRoot ==
    (lastOp = "predict" /\ ~raised) =>
        \A r \in 1..Len(arg) :
            \A q \in LeavesReached(tree, <<arg[r]>>) :
                RatEq(result[r],
                      Climb(tree, q, Rat(GetPolyfit(tree[q].poly, arg[r]), 1), arg[r], k))

\* the rows of X that come by position p of the tree nodes
HeldIn(nodes, X, p) == {r \in 1..Len(X) : Reaches(nodes, p, X[r])}

\* C16 as stated: after prune, every node below the root that no held-out row
\* comes by, the descendants of such a node included, has test_loss = 0 and
\* n_samples = 0
C16_Original ==
    (lastOp = "prune" /\ ~raised) =>
        \A p \in DOMAIN tree \ {Root} :
            Held(p) = {} =>
                /\ tree[p].has_test_loss
                /\ RatEq(tree[p].test_loss, Rat(0, 1))
                /\ tree[p].n_samples = 0

\* C16: in a prune step, a node below the root that gets no held-out row
\* while its parent got one (or is the root) ends with test_loss = 0 and
\* n_samples = 0 and keeps its children; the nodes below it are not visited:
\* they stay in the tree exactly as they were
C16_Amended ==
    [][(lastOp' = "prune" /\ ~raised') =>
          \A p \in DOMAIN tree' \ {Root} :
              HeldIn(tree, arg'.X, p) = {} =>
                  /\ Left(p) \in DOMAIN tree => Left(p) \in DOMAIN tree'
                  /\ Right(p) \in DOMAIN tree => Right(p) \in DOMAIN tree'
                  /\ IF p \div 2 = Root \/ HeldIn(tree, arg'.X, p \div 2) # {}
                     THEN tree'[p] = [tree[p] EXCEPT !.test_loss = Rat(0, 1),
                                                     !.has_test_loss = TRUE,
                                                     !.n_samples = 0]
                     ELSE tree'[p] = tree[p]]_vars

\* a prune has left a node without held-out rows its children, which still
\* carry their training counts and no test_loss
C16_Witness ==
    /\ lastOp = "prune" /\ ~raised
    /\ \E p \in DOMAIN tree \ {Root} :
          /\ Held(p) = {} /\ HasChildren(tree, p)
          /\ tree[p].has_test_loss /\ tree[p].n_samples = 0
          /\ ~tree[Left(p)].has_test_loss /\ tree[Left(p)].n_samples > 0

\* C17: after fit, self.split_dims is the configured list, or all dimensions
\* if none was configured, and every node with children splits on a feature
\* of that list, whatever the splitting criterion
C17_SplitDims ==
    FreshlyFitted =>
        /\ split_dims \in {<<0>>, RangeList(Len(X_train[1]))}
        /\ \A p \in DOMAIN tree :
              HasChildren(tree, p) =>
                  \E n \in 1..Len(split_dims) : tree[p].j_feature = split_dims[n]

\* C18: after fit with all_data = False a node holds its training subset if
\* and only if it is a leaf; with all_data = True every node holds it; the
\* subset held is the set of training rows that come by the node
C18_DataKept ==
    FreshlyFitted =>
        \A p \in DOMAIN tree :
            /\ tree[p].has_data <=> (all_data \/ IsLeaf(tree, p))
            /\ tree[p].has_data => tree[p].data = HeldIn(tree, X_train, p)

\* a fit with all_data = True has split a node below the root, which still
\* holds its rows
C18_Witness ==
    /\ lastOp = "fit" /\ ~raised /\ all_data
    /\ \E p \in DOMAIN tree \ {Root} :
          HasChildren(tree, p) /\ tree[p].has_data /\ tree[p].data # {}

\* the thresholds the search tries on feature j for the training rows given
TriedThresholds(rows, j) ==
    IF search = "exhaustive" THEN {Rat(v, 1) : v \in ColumnValues(X_train, rows, j)}
    ELSE Linspace(SetMin(ColumnValues(X_train, rows, j)),
                  SetMax(ColumnValues(X_train, rows, j)),
                  IF samples > Cardinality(rows) THEN Cardinality(rows) ELSE samples)

\* the training rows of a candidate's left side
SideLeft(rows, c) == {r \in rows : X_train[r][c.j + 1] * c.t.den <= c.t.num}

\* the candidates that leave min_samples_leaf rows on both sides
AdmissibleCandidates(rows) ==
    {c \in UNION {[j : {j}, t : TriedThresholds(rows, j)] : j \in Dims(X_train)} :
        /\ Cardinality(SideLeft(rows, c)) >= min_samples_leaf
        /\ Cardinality(rows \ SideLeft(rows, c)) >= min_samples_leaf}

\* the squared error of the best constant on a set of training rows
SideError(rows) ==
    SquaredError([serial |-> None, coef |-> SetModel(y_train, rows)], X_train, y_train, rows)

\* candidate c scores strictly better than candidate e on the rows given
ScoresBetter(rows, c, e) ==
    IF splitting_criterion = "model_aware"
    THEN SideError(SideLeft(rows, c)) + SideError(rows \ SideLeft(rows, c))
            < SideError(SideLeft(rows, e)) + SideError(rows \ SideLeft(rows, e))
    ELSE SqrtSumGreater(StdScore(y_train, SideLeft(rows, c)),
                        StdScore(y_train, rows \ SideLeft(rows, c)),
                        StdScore(y_train, SideLeft(rows, e)),
                        StdScore(y_train, rows \ SideLeft(rows, e)))

\* candidate c is tried before candidate e
TriedBefore(c, e) == c.j < e.j \/ (c.j = e.j /\ RatLess(c.t, e.t))

\* the candidate that position p of the tree has accepted
Accepted(p) == [j |-> tree[p].j_feature, t |-> tree[p].threshold]

\* C19: after a model_aware or model_agnostic fit, the split of every node
\* with children is an admissible candidate; no admissible candidate scores
\* better, and every admissible candidate tried before it (a lower feature,
\* or a lower threshold on the same feature) scores strictly worse, so of
\* several candidates with the best score the first one tried is kept
C19_FirstBest ==
    (FreshlyFitted /\ splitting_criterion # "loss_gradient") =>
        \A p \in DOMAIN tree :
            HasChildren(tree, p) =>
                /\ \E c \in AdmissibleCandidates(HeldIn(tree, X_train, p)) :
                      c.j = Accepted(p).j /\ RatEq(c.t, Accepted(p).t)
                /\ \A c \in AdmissibleCandidates(HeldIn(tree, X_train, p)) :
                      /\ ~ScoresBetter(HeldIn(tree, X_train, p), c, Accepted(p))
                      /\ TriedBefore(c, Accepted(p)) =>
                            ScoresBetter(HeldIn(tree, X_train, p), Accepted(p), c)

\* a model_aware fit has kept the root's split although a candidate tried
\* later on the same feature, and one on a later feature, score the same
C19_Witness ==
    /\ lastOp = "fit" /\ ~raised /\ splitting_criterion = "model_aware"
    /\ HasChildren(tree, Root)
    /\ \E c, e \in AdmissibleCandidates(AllRows(X_train)) :
          /\ c.j = Accepted(Root).j /\ TriedBefore(Accepted(Root), c)
          /\ e.j > Accepted(Root).j
          /\ ~ScoresBetter(AllRows(X_train), Accepted(Root), c)
          /\ ~ScoresBetter(AllRows(X_train), Accepted(Root), e)

\* the values v of feature d in the array X, but the smallest, that leave at
\* least min_samples_leaf rows below v and at least as many from v on
AdmissibleBoundaries(X, d) ==
    {v \in ColumnValues(X, AllRows(X), d) :
        /\ Cardinality({r \in AllRows(X) : X[r][d + 1] < v}) >= min_samples_leaf
        /\ Cardinality({r \in AllRows(X) : X[r][d + 1] < v}) >= 1
        /\ Cardinality({r \in AllRows(X) : X[r][d + 1] >= v}) >= min_samples_leaf}

\* t is the midpoint between the value v of feature d and the next smaller
\* value of that feature in X
MidpointBelow(X, d, v, t) ==
    \E lo \in ColumnValues(X, AllRows(X), d) :
        /\ lo < v
        /\ \A o \in ColumnValues(X, AllRows(X), d) : ~(lo < o /\ o < v)
        /\ ~IsNaN(t) /\ 2 * t.num = (lo + v) * t.den

\* C20: the gradient split selector reports no split exactly when every
\* dimension of split_dims has fewer than two admissible boundaries; else it
\* reports a dimension of split_dims and the midpoint of the two values
\* around one of that dimension's admissible boundaries
C20_Selector ==
    (lastOp = "_find_split_from_grad" /\ ~raised) =>
        /\ ~result.did_split <=>
              \A n \in 1..Len(split_dims) :
                  Cardinality(AdmissibleBoundaries(arg.X, split_dims[n])) < 2
        /\ result.did_split =>
              \E n \in 1..Len(split_dims) :
                  /\ result.split_dim = split_dims[n]
                  /\ \E v \in AdmissibleBoundaries(arg.X, split_dims[n]) :
                        MidpointBelow(arg.X, split_dims[n], v, result.split_val)

\* the predictions p and q, one list of values for every array of QueryX,
\* are equal as numbers
SamePredictions(p, q) ==
    \A X \in QueryX :
        /\ Len(p[X]) = Len(q[X])
        /\ \A r \in 1..Len(p[X]) : RatEq(p[X][r], q[X][r])

\* C21: a second fit with the same arrays, made on an object that was fitted
\* once since its construction, leaves the object as the first fit left it:
\* the same tree (shape, indices and all other fields), min_samples_leaf, k,
\* actual_max_depth and split_dims, and the same predictions
C21_Refit ==
    [][(lastOp' = "fit" /\ nFits = 1 /\ nFits' = 2 /\ ~raised') =>
          /\ tree' = tree
          /\ min_samples_leaf' = min_samples_leaf
          /\ k' = k
          /\ actual_max_depth' = actual_max_depth
          /\ split_dims' = split_dims
          /\ SamePredictions(Predicted', Predicted)]_vars

\* C22 as stated: a fit on an object whose splitting_criterion or search is
\* not a known name raises and leaves self.tree as it was
C22_Original ==
    [][(lastOp' = "fit"
          /\ (splitting_criterion \notin Criteria \/ search \notin Searches)) =>
          (raised' /\ tree' = tree)]_vars

\* C22: fit raises exactly when splitting_criterion is not a known name, or
\* search is not a known name while the criterion is not loss_gradient and
\* max_depth is positive; a fit that raises leaves self.tree as it was, and
\* every other fit completes and sets a tree
C22_Amended ==
    [][lastOp' = "fit" =>
          /\ raised' <=>
                \/ splitting_criterion \notin Criteria
                \/ /\ search \notin Searches
                   /\ splitting_criterion # "loss_gradient"
                   /\ max_depth > 0
          /\ raised' => tree' = tree
          /\ ~raised' => tree' # NoTree]_vars

\* a fit with an unknown search mode has completed and built a split
C22_Witness ==
    /\ lastOp = "fit" /\ ~raised
    /\ search \notin Searches
    /\ tree # NoTree /\ HasChildren(tree, Root)

\* the split search, run again on the node at position p, reports no split
NoSplitAt(p) ==
    ~_splitter(X_train, y_train, tree[p], 0, actual_max_depth,
               min_samples_leaf, split_dims).did_split

\* 2^n
RECURSIVE Pow2(_)
Pow2(n) == IF n = 0 THEN 1 ELSE 2 * Pow2(n - 1)

\* C23: every fit call returns without an error; the tree it leaves has at
\* most 2^(max_depth+1) - 1 nodes, and each of its leaves is a node at which
\* the split search reports no split
C23_FitEnds ==
    lastOp = "fit" =>
        /\ ~raised
        /\ Cardinality(DOMAIN tree) <= Pow2(max_depth + 1) - 1
        /\ \A p \in DOMAIN tree : IsLeaf(tree, p) => NoSplitAt(p)

\* a fit has filled every position down to max_depth = 2
C23_Witness ==
    /\ lastOp = "fit" /\ ~raised
    /\ max_depth = 2
    /\ Cardinality(DOMAIN tree) = Pow2(max_depth + 1) - 1

\* the loss of the polynomial stored in the node at position q, on the
\* training rows held below q
LossOfStoredPoly(q) ==
    Rat(SquaredError(tree[q].poly, X_train, y_train, StoredRows(tree, q)),
        Cardinality(StoredRows(tree, q)))

\* C24: the children of an accepted split are made without a
\* further fit, so the counter advances by one between the left child's
\* index and the right child's, and each child stores the split search's
\* polynomial and its loss
C24_NoRefit ==
    (lastOp = "fit" /\ ~raised) =>
        \A p \in DOMAIN tree : HasChildren(tree, p) =>
            /\ tree[Right(p)].index = tree[Left(p)].index + 1
            /\ \A q \in {Left(p), Right(p)} :
                  /\ tree[q].poly.serial < tree[Left(p)].index
                  /\ tree[q].loss = LossOfStoredPoly(q)

\* C25: whatever fit and prune calls were made, every node of the tree has
\* depth <= actual_max_depth + 1, so no row's path writes beyond the last
\* level of predict's buffer, and the deepest level written for a row is the
\* depth of the leaf the row is routed to
C25_BufferFits ==
    tree # NoTree =>
        /\ \A p \in DOMAIN tree : tree[p].depth <= actual_max_depth + 1
        /\ \A X \in QueryX : \A r \in 1..Len(X) :
              /\ ~BufferOverrun(tree, actual_max_depth, X[r])
              /\ Deepest(Buffer(tree, actual_max_depth, X[r]), actual_max_depth + 1)
                    = tree[Last(Route(tree, Root, X[r]))].depth

\* predict has run on a tree that a second fit left shallower than the
\* buffer: the root alone, with actual_max_depth still that of the first fit
C25_Witness ==
    /\ lastOp = "predict" /\ ~raised
    /\ nFits = 2
    /\ DOMAIN tree = {Root}
    /\ actual_max_depth >= 1

\* C26: a prune call on a fitted tree returns without an error, and on a
\* tree whose root is a leaf it leaves the root a leaf
C26_PruneCompletes ==
    [][(lastOp' = "prune" /\ tree # NoTree) =>
          /\ ~raised'
          /\ IsLeaf(tree, Root) => (tree' # NoTree /\ IsLeaf(tree', Root))]_vars

====
